---- MODULE Spec2Model ----
(***************************************************************************)
(* scripts/update_rpc.py: download chain metadata from ethereum-lists and   *)
(* regenerate src/ape_geth/chains.py.                                       *)
(*                                                                          *)
(* Text is a sequence of string tokens.  In an endpoint (an entry of a      *)
(* body's rpc list) a token is either one of the single characters ":",     *)
(* "$", "{" or a maximal run of characters holding none of them, so two     *)
(* endpoints are equal exactly when their token sequences are,              *)
(* str.split(":") splits at the ":" tokens, and the substring "${" is a     *)
(* "$" token directly followed by a "{" token.  Text that is only built     *)
(* and written (the URL, the exception message, the lines of the file) is   *)
(* the sequence of the pieces it is formatted from.                         *)
(***************************************************************************)
EXTENDS Integers, Sequences, FiniteSets, TLC

(* ------------------------------ bounds -------------------------------- *)

\* longest rpc list of a response body
MaxRpc == 3
\* longest rpc list of an aggregated result handed to write_chain_const
MaxWriteRpc == 2
\* number of registry entries (in loop order) a run walks
MaxEntries == 3
\* number of runs of main() in a behaviour
MaxRuns == 2

(* ------------------------- ordered mappings --------------------------- *)

\* A Python dict is the sequence of its items, [k, v], in insertion order.
EmptyDict == << >>

HasKey(d, key) == \E i \in 1..Len(d) : d[i].k = key

Get(d, key) == d[CHOOSE i \in 1..Len(d) : d[i].k = key].v

\* d[key] = value: an existing key keeps its position, a new one goes last.
SetItem(d, key, value) ==
    IF HasKey(d, key)
    THEN [i \in 1..Len(d) |-> IF d[i].k = key THEN [k |-> key, v |-> value] ELSE d[i]]
    ELSE Append(d, [k |-> key, v |-> value])

(* ------------------------------ constants ----------------------------- *)

CHAIN_IDS ==
    << [k |-> "base",
        v |-> << [k |-> "mainnet", v |-> 8453], [k |-> "sepolia", v |-> 84532] >>],
       [k |-> "ethereum",
        v |-> << [k |-> "mainnet", v |-> 1], [k |-> "goerli", v |-> 5],
                 [k |-> "sepolia", v |-> 11155111] >>],
       [k |-> "gnosis",
        v |-> << [k |-> "mainnet", v |-> 100] >>],
       [k |-> "polygon",
        v |-> << [k |-> "mainnet", v |-> 137], [k |-> "mumbai", v |-> 80001] >>],
       [k |-> "polygon-zkevm",
        v |-> << [k |-> "mainnet", v |-> 1101], [k |-> "testnet", v |-> 1442] >>] >>

\* (mutation: websockets are let through)
INCLUDE_PROTOCOLS_m == << <<"http">>, <<"https">>, <<"ws">>, <<"wss">> >>

INCLUDE_PROTOCOLS == << <<"http">>, <<"https">> >>

SOURCE_URL == <<"https", ":", "//raw.githubusercontent.com/ethereum-lists/chains/master/_data/chains/">>

\* (mutation: rpc: list[str] = [])
RequiredFields_m ==
    {"name", "chain", "faucets", "nativeCurrency", "infoURL", "shortName",
     "chainId", "networkId", "explorers"}

\* The fields of the response schema.
RequiredFields ==
    {"name", "chain", "rpc", "faucets", "nativeCurrency", "infoURL", "shortName",
     "chainId", "networkId", "explorers"}

OptionalFields == {"icon", "features", "slip44", "ens"}

(* --------------------------- text helpers ----------------------------- *)

\* s.split(sep) for a one-token separator: the list of the pieces between
\* the separators, empty pieces included.
RECURSIVE Split(_, _)
Split(s, sep) ==
    IF \A i \in 1..Len(s) : s[i] # sep
    THEN << s >>
    ELSE LET i == CHOOSE j \in 1..Len(s) :
                      /\ s[j] = sep
                      /\ \A m \in 1..(j - 1) : s[m] # sep
         IN  << SubSeq(s, 1, i - 1) >> \o Split(SubSeq(s, i + 1, Len(s)), sep)

\* x in lst
In(x, lst) == \E i \in 1..Len(lst) : lst[i] = x

\* (mutation: "$" in s)
HasTemplate_m(s) == \E i \in 1..Len(s) : s[i] = "$"

\* "${" in s
HasTemplate(s) == \E i \in 1..(Len(s) - 1) : s[i] = "$" /\ s[i + 1] = "{"

(* ------------------------------ the clock ----------------------------- *)

\* The values str(datetime.utcnow()) takes, in the order time passes.
UTC == << "2023-11-02 16:04:05.000001", "2023-11-02 16:04:05.000002",
          "2023-11-03 09:00:00.000000" >>

stamp(t) == UTC[t]

(* ------------------------------ exceptions ---------------------------- *)

NoExc == [type |-> "None", where |-> "", message |-> << >>]

Raise(type, where, message) == [type |-> type, where |-> where, message |-> message]

(* ------------------------------- fetch_chain -------------------------- *)

\* A response of requests.get: either the call raises (no connection), or
\* it returns a status code and a text.  The text of a body is the set of
\* the top-level fields it holds and its rpc list (empty without the field).
NoBody == [fields |-> {}, rpc |-> << >>]

ConnectionError == [raises |-> TRUE, status_code |-> 0, text |-> NoBody]

Response(status_code, text) == [raises |-> FALSE, status_code |-> status_code, text |-> text]

url(chain_id) == SOURCE_URL \o << "eip155-", ToString(chain_id), ".json" >>

\* Chain.model_validate_json: every field without a default must be there.
Validates(text) == RequiredFields \subseteq text.fields

\* (mutation: rpc.split(":")[-1] in INCLUDE_PROTOCOLS)
IncludeRpc_m(rpc) == In(Split(rpc, ":")[Len(Split(rpc, ":"))], INCLUDE_PROTOCOLS)

\* The lambda of the filter: rpc.split(":")[0] in INCLUDE_PROTOCOLS
IncludeRpc(rpc) == In(Split(rpc, ":")[1], INCLUDE_PROTOCOLS)

\* list(filter(lambda rpc: ..., lst))
RECURSIVE Filter(_)
Filter(lst) ==
    IF lst = << >> THEN << >>
    ELSE (IF IncludeRpc(Head(lst)) THEN << Head(lst) >> ELSE << >>) \o Filter(Tail(lst))

\* Of a Chain only rpc is read after validation.
NoChain == [rpc |-> << >>]

\* (mutation: only 404 is a failure)
StatusOk_m(status_code) == status_code # 404

\* The test of the status: anything but 200 is a failure.
StatusOk(status_code) == status_code = 200

\* (mutation: Exception(f"Failed to fetch {url}: {r.status_code}"))
FailedToFetch_m(u, status_code) ==
    Raise("Exception", "fetch_chain", << "Failed to fetch " >> \o u \o << ": ", ToString(status_code) >>)

\* Exception(f"Failed to fetch {url}"), raised on a status that is not 200
FailedToFetch(u, status_code) == Raise("Exception", "fetch_chain", << "Failed to fetch " >> \o u)

fetch_chain(chain_id, r) ==
    IF r.raises
    THEN [exc |-> Raise("ConnectionError", "fetch_chain", url(chain_id)), value |-> NoChain]
    ELSE IF ~StatusOk(r.status_code)
    THEN [exc |-> FailedToFetch(url(chain_id), r.status_code), value |-> NoChain]
    ELSE IF ~Validates(r.text)
    THEN [exc |-> Raise("ValidationError", "fetch_chain", << "Field required" >>),
          value |-> NoChain]
    ELSE [exc |-> NoExc, value |-> [rpc |-> Filter(r.text.rpc)]]

(* ------------------------------ fetch_chains -------------------------- *)

\* (mutation: d[key] = dict() whether the key is there or not)
ensure_dict_m(d, key) == SetItem(d, key, EmptyDict)

ensure_dict(d, key) ==
    \* isinstance(d[key], dict) holds of every value the script stores in d
    IF HasKey(d, key) THEN d ELSE SetItem(d, key, EmptyDict)

\* (mutation: for ecosystem in reversed(CHAIN_IDS.keys()))
RECURSIVE LoopOrder_m(_)
LoopOrder_m(ids) ==
    IF ids = << >> THEN << >>
    ELSE LoopOrder_m(Tail(ids))
         \o [i \in 1..Len(Head(ids).v) |->
                [ecosystem |-> Head(ids).k,
                 network |-> Head(ids).v[i].k,
                 chain_id |-> Head(ids).v[i].v]]

\* The (ecosystem, network, chain_id) triples in the order the two loops
\* of fetch_chains visit them.
RECURSIVE LoopOrder(_)
LoopOrder(ids) ==
    IF ids = << >> THEN << >>
    ELSE [i \in 1..Len(Head(ids).v) |->
             [ecosystem |-> Head(ids).k,
              network |-> Head(ids).v[i].k,
              chain_id |-> Head(ids).v[i].v]]
         \o LoopOrder(Tail(ids))

\* The entries a run walks: the first MaxEntries of the registry.
Entries == SubSeq(LoopOrder(CHAIN_IDS), 1, MaxEntries)

(* --------------------------- write_chain_const ------------------------ *)

RECURSIVE RpcLines(_)
RpcLines(rpcs) ==
    IF rpcs = << >> THEN << >>
    ELSE (IF HasTemplate(Head(rpcs))
          THEN << >>
          ELSE << << "            \"" >> \o Head(rpcs) \o << "\",\n" >> >>)
         \o RpcLines(Tail(rpcs))

RECURSIVE NetworkLines(_)
NetworkLines(networks) ==
    IF networks = << >> THEN << >>
    ELSE << << "        \"", Head(networks).k, "\": [\n" >> >>
         \o RpcLines(Head(networks).v.rpc)
         \o << << "        ],\n" >> >>
         \o NetworkLines(Tail(networks))

RECURSIVE EcosystemLines(_)
EcosystemLines(chains) ==
    IF chains = << >> THEN << >>
    ELSE << << "    \"", Head(chains).k, "\": {\n" >> >>
         \o NetworkLines(Head(chains).v)
         \o << << "    },\n" >> >>
         \o EcosystemLines(Tail(chains))

\* What write_chain_const writes, one element per const_file.write call,
\* when the second call reads the clock at t.
ConstLines(chains, t) ==
    << << "# This file is auto-generated by scripts/update_rpc.py\n" >>,
       << "# ", stamp(t), "\n" >>,
       << "# Do not edit this file directly.\n" >>,
       << "PUBLIC_CHAIN_RPCS: dict[str, dict[str, list[str]]] = {\n" >> >>
    \o EcosystemLines(chains)
    \o << << "}\n" >> >>

\* (mutation: CHAIN_CONST_FILE.open("a"))
OpenW_m(old) == old

\* CHAIN_CONST_FILE.open("w"): the file is cut to nothing before the
\* first write.
OpenW(old) == << >>

(* ------------------------------- inputs ------------------------------- *)

\* The endpoints the registry source may list.
HttpsA    == << "https", ":", "//a" >>
WssB      == << "wss", ":", "//b" >>
HttpC     == << "http", ":", "//c" >>
HttpsD    == << "https", ":", "//d" >>
TemplateE == << "$", "{", "X}/e" >>
HttpsKey  == << "https", ":", "//k/", "$", "{", "KEY}" >>
BareHttp  == << "http" >>
HttpPort  == << "http", ":", "//m", ":", "8545" >>
WsHttp    == << "ws", ":", "http", ":", "//x" >>
HttpsCurl == << "https", ":", "//n/", "$", "x", "{", "y" >>

Endpoints ==
    {HttpsA, WssB, HttpC, HttpsD, TemplateE, HttpsKey, BareHttp, HttpPort, WsHttp, HttpsCurl}

\* The lists of at most n members of S.
ListsOf(S, n) == UNION {[1..m -> S] : m \in 0..n}

\* The top-level fields of a file of the source, and those of them the
\* response schema gives without a question mark.
JsonFields ==
    {"name", "chain", "icon", "rpc", "features", "faucets", "nativeCurrency", "infoURL",
     "shortName", "chainId", "networkId", "slip44", "ens", "explorers"}

SchemaRequired == JsonFields \ {"icon", "features", "slip44", "ens"}

Body(rpc) == [fields |-> SchemaRequired, rpc |-> rpc]

\* Bodies of a single fetch: every rpc list within the bound, with and
\* without the optional fields, and bodies that lack a required field.
FetchBodies ==
    {[fields |-> F, rpc |-> l] : F \in {SchemaRequired, JsonFields}, l \in ListsOf(Endpoints, MaxRpc)}
    \cup {[fields |-> JsonFields \ {f}, rpc |-> << >>] : f \in {"rpc"}}
    \cup {[fields |-> JsonFields \ {f}, rpc |-> << HttpsA, WssB >>] : f \in SchemaRequired \ {"rpc"}}

FetchResponses ==
    {ConnectionError}
    \cup {Response(200, b) : b \in FetchBodies}
    \cup {Response(c, b) : c \in {404, 500}, b \in {NoBody, Body(<< HttpsA, WssB >>)}}

\* What the source answers in the runs of main(): the lists of the spec's
\* worked example, a list the filter empties, one holding a template and a
\* bare word, bodies without rpc and without explorers, two failing
\* statuses, no connection.
MockResponses ==
    { Response(200, Body(<< HttpsA, WssB, HttpC >>)),
      Response(200, Body(<< HttpsD, TemplateE >>)),
      Response(200, Body(<< WssB >>)),
      Response(200, Body(<< HttpsKey, BareHttp, HttpsA, HttpsA >>)),
      Response(200, [fields |-> JsonFields \ {"rpc"}, rpc |-> << >>]),
      Response(200, [fields |-> SchemaRequired \ {"explorers"}, rpc |-> << HttpsA >>]),
      Response(404, NoBody),
      Response(500, Body(<< HttpsA >>)),
      ConnectionError }

\* The destination file before the first run: absent or empty, a stale
\* hand-written file, or a file longer than any the script writes.
StaleLine == << "# stale\n" >>

PriorFiles == { << >>, << StaleLine >>, [i \in 1..40 |-> StaleLine] }

\* Aggregated results handed to write_chain_const directly: one or two
\* consecutive registry entries, any rpc lists (unfiltered ones too).
WriteEndpoints == {WssB, HttpsKey, HttpsCurl}

RECURSIVE Aggregate(_, _)
Aggregate(entries, lists) ==
    IF entries = << >> THEN EmptyDict
    ELSE LET n    == Len(entries)
             rest == Aggregate(SubSeq(entries, 1, n - 1), SubSeq(lists, 1, n - 1))
             e    == entries[n]
             d    == ensure_dict(rest, e.ecosystem)
         IN  SetItem(d, e.ecosystem, SetItem(Get(d, e.ecosystem), e.network, [rpc |-> lists[n]]))

Aggregates ==
    UNION {{Aggregate(SubSeq(Entries, w[1], w[1] + w[2] - 1), l) :
               l \in [1..w[2] -> ListsOf(WriteEndpoints, MaxWriteRpc)]} :
           w \in {v \in (1..Len(Entries)) \X (0..2) : v[1] + v[2] - 1 <= Len(Entries)}}

(* ------------------------------- state -------------------------------- *)

VARIABLES
    pc,         \* where main() is: "idle", "fetch_chains", "write_chain_const", "done", "raised"
    entry,      \* fetch_chains: index in Entries of the next entry of the loops
    fc_chains,  \* fetch_chains: its local chains
    chains,     \* main: its local chains, << >> while unbound, << d >> once bound to d
    requests,   \* the URLs requests.get was called with in this run, in order
    exc,        \* the exception that ended the run, NoExc without one
    file,       \* the content of CHAIN_CONST_FILE: the lines written to it
    before,     \* the content of CHAIN_CONST_FILE when this run started
    runs,       \* how many runs of main() have started
    last,       \* how the previous run ended and what it left in the file
    now,        \* the clock: index in UTC
    source,     \* what the registry source has answered, by chain id
    arg,        \* fetch_chain called on its own: its argument and the response
    ret         \* fetch_chain called on its own: its outcome, << >> before the call

vars == << pc, entry, fc_chains, chains, requests, exc, file, before, runs, last, now,
           source, arg, ret >>

unit == << arg, ret >>

NoCall == [chain_id |-> 0, r |-> ConnectionError]

Init ==
    /\ pc = "idle"
    /\ entry = 1
    /\ fc_chains = EmptyDict
    /\ chains = << >>
    /\ requests = << >>
    /\ exc = NoExc
    /\ file \in PriorFiles
    /\ before = file
    /\ runs = 0
    /\ last = [pc |-> "idle", file |-> file]
    /\ now = 1
    /\ source = EmptyDict
    /\ arg = NoCall
    /\ ret = << >>

(* ------------------------------- main --------------------------------- *)

\* python scripts/update_rpc.py: main() up to the call of fetch_chains.
main ==
    /\ pc = "idle"
    /\ runs' = runs + 1
    /\ pc' = "fetch_chains"
    /\ UNCHANGED << entry, fc_chains, chains, requests, exc, file, before, last, now, source, unit >>

\* python scripts/update_rpc.py once more, after a run has ended: a new
\* process, whose locals start afresh; the file and the source stay.
rerun ==
    /\ pc \in {"done", "raised"}
    /\ runs < MaxRuns
    /\ runs' = runs + 1
    /\ last' = IF pc = "done" THEN [pc |-> "done", file |-> file] ELSE last
    /\ before' = file
    /\ pc' = "fetch_chains"
    /\ entry' = 1
    /\ fc_chains' = EmptyDict
    /\ chains' = << >>
    /\ requests' = << >>
    /\ exc' = NoExc
    /\ UNCHANGED << file, now, source, unit >>

\* The answer of the source to a GET for chain_id: the one it gave before,
\* or any answer the first time.
Answers(chain_id) ==
    IF HasKey(source, chain_id) THEN {Get(source, chain_id)} ELSE MockResponses

\* One turn of the loops of fetch_chains whose fetch_chain returns.
fetch_chains_next ==
    /\ pc = "fetch_chains"
    /\ entry <= Len(Entries)
    /\ LET e == Entries[entry] IN
       \E r \in Answers(e.chain_id) :
          LET out == fetch_chain(e.chain_id, r)
              d   == ensure_dict(fc_chains, e.ecosystem)
          IN  /\ out.exc = NoExc
              /\ source' = SetItem(source, e.chain_id, r)
              /\ requests' = Append(requests, url(e.chain_id))
              /\ fc_chains' = SetItem(d, e.ecosystem, SetItem(Get(d, e.ecosystem), e.network, out.value))
              /\ entry' = entry + 1
    /\ UNCHANGED << pc, chains, exc, file, before, runs, last, now, unit >>

\* (mutation: the exception is caught and the loops go on)
fetch_chains_raise_m ==
    /\ pc = "fetch_chains"
    /\ entry <= Len(Entries)
    /\ LET e == Entries[entry] IN
       \E r \in Answers(e.chain_id) :
          /\ fetch_chain(e.chain_id, r).exc # NoExc
          /\ source' = SetItem(source, e.chain_id, r)
          /\ requests' = Append(requests, url(e.chain_id))
          /\ fc_chains' = ensure_dict(fc_chains, e.ecosystem)
          /\ entry' = entry + 1
    /\ UNCHANGED << pc, chains, exc, file, before, runs, last, now, unit >>

\* One turn of the loops of fetch_chains whose fetch_chain raises: nothing
\* catches the exception, so fetch_chains and main end with it.
fetch_chains_raise ==
    /\ pc = "fetch_chains"
    /\ entry <= Len(Entries)
    /\ LET e == Entries[entry] IN
       \E r \in Answers(e.chain_id) :
          LET out == fetch_chain(e.chain_id, r)
          IN  /\ out.exc # NoExc
              /\ source' = SetItem(source, e.chain_id, r)
              /\ requests' = Append(requests, url(e.chain_id))
              /\ fc_chains' = ensure_dict(fc_chains, e.ecosystem)
              /\ exc' = out.exc
              /\ pc' = "raised"
    /\ UNCHANGED << entry, chains, file, before, runs, last, now, unit >>

\* The loops are over: fetch_chains returns its chains to main.
fetch_chains_return ==
    /\ pc = "fetch_chains"
    /\ entry > Len(Entries)
    /\ chains' = << fc_chains >>
    /\ pc' = "write_chain_const"
    /\ UNCHANGED << entry, fc_chains, requests, exc, file, before, runs, last, now, source, unit >>

\* write_chain_const runs to its end; the clock is read at some t >= now.
write_chain_const ==
    /\ pc = "write_chain_const"
    /\ \E t \in now..Len(UTC) :
          /\ now' = t
          /\ file' = OpenW(file) \o ConstLines(chains[1], t)
    /\ pc' = "done"
    /\ UNCHANGED << entry, fc_chains, chains, requests, exc, before, runs, last, source, unit >>

\* CHAIN_CONST_FILE.open("w") raises (no such directory, no permission).
write_open_raise ==
    /\ pc = "write_chain_const"
    /\ exc' = Raise("OSError", "write_chain_const", << "open" >>)
    /\ pc' = "raised"
    /\ UNCHANGED << entry, fc_chains, chains, requests, file, before, runs, last, now, source, unit >>

\* The file is opened and n calls of const_file.write succeed; the next one
\* raises (disk full, device gone).
write_raise ==
    /\ pc = "write_chain_const"
    /\ \E t \in now..Len(UTC) :
          /\ now' = t
          /\ \E n \in 0..(Len(ConstLines(chains[1], t)) - 1) :
                file' = OpenW(file) \o SubSeq(ConstLines(chains[1], t), 1, n)
    /\ exc' = Raise("OSError", "write_chain_const", << "write" >>)
    /\ pc' = "raised"
    /\ UNCHANGED << entry, fc_chains, chains, requests, before, runs, last, source, unit >>

\* One run of main(), with every failure of the requests and of the file.
Next ==
    \/ main
    \/ fetch_chains_next
    \/ fetch_chains_raise
    \/ fetch_chains_return
    \/ write_chain_const
    \/ write_open_raise
    \/ write_raise

Spec == Init /\ [][Next]_vars

\* Runs of main() one after the other against a source that answers each
\* chain id as it did before; the file can fail to open, and a write that
\* is begun ends.
NextTwice ==
    \/ main
    \/ rerun
    \/ fetch_chains_next
    \/ fetch_chains_raise
    \/ fetch_chains_return
    \/ write_chain_const
    \/ write_open_raise

SpecTwice == Init /\ [][NextTwice]_vars

(* ------------------------ the functions on their own ------------------ *)

\* fetch_chain(chain_id) for a chain id of the registry and any response.
InitFetch ==
    /\ pc = "idle"
    /\ entry = 1
    /\ fc_chains = EmptyDict
    /\ chains = << >>
    /\ requests = << >>
    /\ exc = NoExc
    /\ file = << >>
    /\ before = file
    /\ runs = 0
    /\ last = [pc |-> "idle", file |-> file]
    /\ now = 1
    /\ source = EmptyDict
    /\ arg \in {[chain_id |-> LoopOrder(CHAIN_IDS)[i].chain_id, r |-> r] :
                  i \in 1..Len(LoopOrder(CHAIN_IDS)), r \in FetchResponses}
    /\ ret = << >>

call_fetch_chain ==
    /\ ret = << >>
    /\ arg # NoCall
    /\ ret' = << fetch_chain(arg.chain_id, arg.r) >>
    /\ UNCHANGED << pc, entry, fc_chains, chains, requests, exc, file, before, runs, last,
                    now, source, arg >>

NextFetch == call_fetch_chain

SpecFetch == InitFetch /\ [][NextFetch]_vars

\* write_chain_const(chains) for any aggregated result and any file.
InitWrite ==
    /\ pc = "write_chain_const"
    /\ entry = 1
    /\ fc_chains = EmptyDict
    /\ chains \in {<< d >> : d \in Aggregates}
    /\ requests = << >>
    /\ exc = NoExc
    /\ file \in PriorFiles
    /\ before = file
    /\ runs = 1
    /\ last = [pc |-> "idle", file |-> file]
    /\ now = 1
    /\ source = EmptyDict
    /\ arg = NoCall
    /\ ret = << >>

NextWrite ==
    \/ write_chain_const
    \/ write_open_raise
    \/ write_raise

SpecWrite == InitWrite /\ [][NextWrite]_vars

(* ----------------------------- properties ---------------------------- *)

\* The registry as the script lists it, entry by entry.
Registry ==
    << [ecosystem |-> "base", network |-> "mainnet", chain_id |-> 8453],
       [ecosystem |-> "base", network |-> "sepolia", chain_id |-> 84532],
       [ecosystem |-> "ethereum", network |-> "mainnet", chain_id |-> 1],
       [ecosystem |-> "ethereum", network |-> "goerli", chain_id |-> 5],
       [ecosystem |-> "ethereum", network |-> "sepolia", chain_id |-> 11155111],
       [ecosystem |-> "gnosis", network |-> "mainnet", chain_id |-> 100],
       [ecosystem |-> "polygon", network |-> "mainnet", chain_id |-> 137],
       [ecosystem |-> "polygon", network |-> "mumbai", chain_id |-> 80001],
       [ecosystem |-> "polygon-zkevm", network |-> "mainnet", chain_id |-> 1101],
       [ecosystem |-> "polygon-zkevm", network |-> "testnet", chain_id |-> 1442] >>

\* The scheme of an endpoint: its text before the first ":" (all of it
\* when it holds none).
Scheme(u) ==
    LET colons == {i \in 1..Len(u) : u[i] = ":"}
    IN  IF colons = {} THEN u
        ELSE SubSeq(u, 1, (CHOOSE i \in colons : \A j \in colons : i <= j) - 1)

HttpScheme(u) == Scheme(u) \in { <<"http">>, <<"https">> }

Placeholder(u) == \E i \in 1..(Len(u) - 1) : << u[i], u[i + 1] >> = << "$", "{" >>

NoPlaceholder(u) == ~Placeholder(u)

Usable(u) == HttpScheme(u) /\ ~Placeholder(u)

\* Whether piece occurs in message, as consecutive tokens.
Carries(message, piece) ==
    \E i \in 0..(Len(message) - Len(piece)) : SubSeq(message, i + 1, i + Len(piece)) = piece

\* Reading the generated file back: its ecosystem, network and endpoint
\* lines by their shape.
IsEcosystemLine(l) == Len(l) = 3 /\ l[1] = "    \"" /\ l[3] = "\": {\n"

IsNetworkLine(l) == Len(l) = 3 /\ l[1] = "        \"" /\ l[3] = "\": [\n"

IsRpcLine(l) == Len(l) >= 2 /\ l[1] = "            \"" /\ l[Len(l)] = "\",\n"

RECURSIVE Read(_, _, _)
Read(lines, ecosystem, acc) ==
    IF lines = << >> THEN acc
    ELSE LET l == Head(lines) IN
         IF IsEcosystemLine(l) THEN Read(Tail(lines), l[2], acc)
         ELSE IF IsNetworkLine(l)
         THEN Read(Tail(lines), ecosystem,
                   Append(acc, [ecosystem |-> ecosystem, network |-> l[2], rpc |-> << >>]))
         ELSE IF IsRpcLine(l) /\ acc # << >>
         THEN Read(Tail(lines), ecosystem,
                   [acc EXCEPT ![Len(acc)].rpc = Append(@, SubSeq(l, 2, Len(l) - 1))])
         ELSE Read(Tail(lines), ecosystem, acc)

\* The (ecosystem, network, endpoints) triples of the file, in its order.
ReadConst(f) == Read(f, "", << >>)

\* The names on the ecosystem lines of the file, in its order.
ReadEcosystems(f) ==
    LET ls == SelectSeq(f, IsEcosystemLine) IN [i \in 1..Len(ls) |-> ls[i][2]]

\* The (ecosystem, network, endpoints) triples of an aggregated result.
RECURSIVE Flat(_)
Flat(d) ==
    IF d = << >> THEN << >>
    ELSE [i \in 1..Len(Head(d).v) |->
             [ecosystem |-> Head(d).k, network |-> Head(d).v[i].k, rpc |-> Head(d).v[i].v.rpc]]
         \o Flat(Tail(d))

KeysOf(triples) ==
    [i \in 1..Len(triples) |-> << triples[i].ecosystem, triples[i].network >>]

\* What the source answered to the i-th request of this run.
Answer(i) == Get(source, Registry[i].chain_id)

SchemaValid(r) == ~r.raises /\ r.status_code = 200 /\ SchemaRequired \subseteq r.text.fields

\* What a run that ends well has to leave under each ecosystem -> network.
Expected ==
    [i \in 1..MaxEntries |->
        [ecosystem |-> Registry[i].ecosystem, network |-> Registry[i].network,
         rpc |-> SelectSeq(Answer(i).text.rpc, Usable)]]

\* The file is a whole generated file holding the data of this run.
Complete(f) ==
    /\ Len(f) >= 5
    /\ f[1] = << "# This file is auto-generated by scripts/update_rpc.py\n" >>
    /\ \E t \in 1..Len(UTC) : f[2] = << "# ", UTC[t], "\n" >>
    /\ f[3] = << "# Do not edit this file directly.\n" >>
    /\ f[4] = << "PUBLIC_CHAIN_RPCS: dict[str, dict[str, list[str]]] = {\n" >>
    /\ f[Len(f)] = << "}\n" >>
    /\ Len(requests) = MaxEntries
    /\ ReadConst(f) = Expected

FetchCalled == ret # << >>

\* C1: for every chain id of the registry and every response with status
\* 200 and a body that holds the required fields, fetch_chain returns, and
\* the rpc list of the record is the body's rpc list restricted to the
\* entries whose scheme is http or https: same order, duplicates kept,
\* every other entry gone.
C1_FetchKeepsHttpEndpoints ==
    (FetchCalled /\ SchemaValid(arg.r)) =>
        /\ ret[1].exc = NoExc
        /\ ret[1].value.rpc = SelectSeq(arg.r.text.rpc, HttpScheme)

C1_Witness ==
    /\ FetchCalled
    /\ SchemaValid(arg.r)
    /\ arg.r.text.rpc = << HttpsA, WssB, HttpsA >>
    /\ ret[1].value.rpc = << HttpsA, HttpsA >>

\* C2: for every aggregated result, what write_chain_const emits for each
\* (ecosystem, network) is that network's rpc list without the endpoints
\* that contain "${", the others all there and in their order.
C2_WriteDropsTemplates ==
    pc = "done" =>
        ReadConst(file) =
            [i \in 1..Len(Flat(chains[1])) |->
                [Flat(chains[1])[i] EXCEPT !.rpc = SelectSeq(@, NoPlaceholder)]]

C2_Witness ==
    /\ pc = "done"
    /\ \E i \in 1..Len(Flat(chains[1])) :
          /\ Flat(chains[1])[i].rpc = << HttpsKey, HttpsCurl >>
          /\ ReadConst(file)[i].rpc = << HttpsCurl >>

\* C3: a status other than 200 for any entry, the first, a middle or the
\* last one, ends the run at that request with the destination file as it
\* was before the run and nothing returned to main.
C3_FailedStatusLeavesFile ==
    \A i \in 1..Len(requests) :
        (~Answer(i).raises /\ Answer(i).status_code # 200) =>
            /\ pc = "raised"
            /\ exc.where = "fetch_chain"
            /\ i = Len(requests)
            /\ chains = << >>
            /\ file = before

C3_Witness ==
    /\ pc = "raised"
    /\ Len(requests) = MaxEntries
    /\ ~Answer(MaxEntries).raises
    /\ Answer(MaxEntries).status_code = 500
    /\ file = << StaleLine >>

\* C4: a response with status 200 whose body lacks a required field ends
\* the run with a validation error at that request, the destination file
\* as it was before the run.
C4_MissingFieldLeavesFile ==
    \A i \in 1..Len(requests) :
        (~Answer(i).raises /\ Answer(i).status_code = 200
            /\ ~(SchemaRequired \subseteq Answer(i).text.fields)) =>
            /\ pc = "raised"
            /\ exc.type = "ValidationError"
            /\ i = Len(requests)
            /\ chains = << >>
            /\ file = before

C4_Witness ==
    /\ pc = "raised"
    /\ exc.type = "ValidationError"
    /\ Len(requests) = 2
    /\ Answer(2).status_code = 200
    /\ "rpc" \notin Answer(2).text.fields
    /\ file = << StaleLine >>

\* C5: a run that ends well leaves in the file, under each ecosystem ->
\* network of the registry, exactly the fetched endpoints that have scheme
\* http or https and hold no "${", in the order of the source.
C5_FileHoldsUsableEndpoints ==
    pc = "done" => ReadConst(file) = Expected

C5_Witness ==
    /\ pc = "done"
    /\ Answer(1).text.rpc = << HttpsA, WssB, HttpC >>
    /\ Answer(2).text.rpc = << HttpsD, TemplateE >>
    /\ ReadConst(file)[1].rpc = << HttpsA, HttpC >>
    /\ ReadConst(file)[2].rpc = << HttpsD >>

\* C6: when a run ends well after an earlier run that ended well against
\* the same answers, the two files are equal line by line but for the
\* second line, the timestamp; and whatever the file held before a run
\* that ends well, none of it is left.
C6_RunsDifferInStampOnly ==
    /\ (pc = "done" /\ last.pc = "done") =>
          /\ Len(file) = Len(last.file)
          /\ \A i \in 1..Len(file) : i # 2 => file[i] = last.file[i]
    /\ pc = "done" =>
          /\ \A i \in 1..Len(file) : file[i] # StaleLine
          /\ Len(SelectSeq(file, LAMBDA l : l = << "}\n" >>)) = 1

C6_Witness ==
    /\ pc = "done"
    /\ last.pc = "done"
    /\ runs = 2
    /\ file[2] # last.file[2]
    /\ ReadConst(file)[1].rpc = << HttpsA, HttpC >>

\* C7 as stated: on a status other than 200 fetch_chain fails with an
\* exception that carries the URL requested and the status received.
C7_FailureCarriesUrlAndStatus ==
    (FetchCalled /\ ~arg.r.raises /\ arg.r.status_code # 200) =>
        /\ ret[1].exc # NoExc
        /\ Carries(ret[1].exc.message, url(arg.chain_id))
        /\ Carries(ret[1].exc.message, << ToString(arg.r.status_code) >>)

\* C7: on a status other than 200 fetch_chain fails with a plain
\* Exception whose message is "Failed to fetch " and the URL requested;
\* the status received is not in it.
C7_FailureCarriesUrlOnly ==
    (FetchCalled /\ ~arg.r.raises /\ arg.r.status_code # 200) =>
        /\ ret[1].exc.type = "Exception"
        /\ ret[1].exc.message = << "Failed to fetch " >> \o url(arg.chain_id)
        /\ ~Carries(ret[1].exc.message, << ToString(arg.r.status_code) >>)

C7_Witness ==
    /\ FetchCalled
    /\ arg.chain_id = 11155111
    /\ ~arg.r.raises
    /\ arg.r.status_code = 404
    /\ ret[1].exc.type = "Exception"

Failing(r) == ~SchemaValid(r)

\* C8: the requests of a run are those of the registry's entries in its
\* order, ecosystem by ecosystem and network by network, one for each
\* entry and none twice; the first failing fetch is the last request and
\* nothing is returned to main; once fetch_chains has returned there is
\* exactly one request for each entry.
C8_RequestsFollowRegistry ==
    /\ Len(requests) <= MaxEntries
    /\ requests = [i \in 1..Len(requests) |-> url(Registry[i].chain_id)]
    /\ \A i \in 1..(Len(requests) - 1) : ~Failing(Answer(i))
    /\ pc = "fetch_chains" => chains = << >> /\ Len(requests) = entry - 1
    /\ (pc = "raised" /\ exc.where = "fetch_chain") =>
          /\ chains = << >>
          /\ Failing(Answer(Len(requests)))
    /\ chains # << >> =>
          /\ Len(requests) = MaxEntries
          /\ ~Failing(Answer(MaxEntries))

C8_Witness ==
    /\ pc = "raised"
    /\ exc.where = "fetch_chain"
    /\ requests = << url(8453), url(84532) >>
    /\ MaxEntries > 2
    /\ chains = << >>

\* C9: when a run has ended the file is the whole new file (the run ended
\* well), or what it was before the run (any failure before
\* write_chain_const wrote), or cut short; it is neither the old nor the
\* whole new content only after an error raised inside write_chain_const.
C9_FileOldNewOrCutByWriter ==
    /\ pc = "done" => Complete(file)
    /\ pc \in {"idle", "fetch_chains", "write_chain_const"} => file = before
    /\ (pc = "raised" /\ exc.where = "fetch_chain") => file = before
    /\ (file # before /\ ~Complete(file)) =>
          /\ pc = "raised"
          /\ exc.type = "OSError"
          /\ exc.where = "write_chain_const"

C9_Witness ==
    /\ pc = "raised"
    /\ exc.where = "write_chain_const"
    /\ before = << StaleLine >>
    /\ Len(file) > 5
    /\ file # before
    /\ ~Complete(file)

\* The ecosystems of the first n registry entries, each once, in order.
RegistryEcosystems(n) ==
    LET first == {i \in 1..n : \A j \in 1..(i - 1) : Registry[j].ecosystem # Registry[i].ecosystem}
        pick[k \in 0..n] ==
            IF k = 0 THEN << >>
            ELSE IF k \in first THEN Append(pick[k - 1], Registry[k].ecosystem) ELSE pick[k - 1]
    IN  pick[n]

\* C10: all through fetch_chains its mapping holds exactly the entries
\* fetched so far, each under its ecosystem, no ecosystem twice and none
\* reset; so a run that ends well writes the registry's ecosystems and
\* networks, each once and in the registry's order, networks whose list
\* is empty after the filters too.
C10_MappingHoldsEntriesSoFar ==
    /\ KeysOf(Flat(fc_chains)) =
          [i \in 1..(entry - 1) |-> << Registry[i].ecosystem, Registry[i].network >>]
    /\ \A i, j \in 1..Len(fc_chains) : fc_chains[i].k = fc_chains[j].k => i = j
    /\ pc = "done" =>
          /\ KeysOf(Flat(chains[1])) = KeysOf(SubSeq(Registry, 1, MaxEntries))
          /\ KeysOf(ReadConst(file)) = KeysOf(SubSeq(Registry, 1, MaxEntries))
          /\ ReadEcosystems(file) = RegistryEcosystems(MaxEntries)

C10_Witness ==
    /\ pc = "done"
    /\ Answer(1).text.rpc = << HttpsA, WssB, HttpC >>
    /\ Answer(2).text.rpc = << WssB >>
    /\ ReadConst(file)[1] = [ecosystem |-> "base", network |-> "mainnet", rpc |-> << HttpsA, HttpC >>]
    /\ ReadConst(file)[2] = [ecosystem |-> "base", network |-> "sepolia", rpc |-> << >>]

====
